---- MODULE Spec2Model ----
(***************************************************************************)
(* The hybrid cache of lib/cache.js: a Redis client used when `ready &&    *)
(* client`, and an in-process LRU Map with per-key expiry used otherwise   *)
(* or when a remote call throws.  Handlers are async functions: each runs  *)
(* atomically up to its `await` of a remote call and again from the        *)
(* resolution of that call to its return.                                  *)
(***************************************************************************)
EXTENDS Integers, Sequences, FiniteSets, TLC

\* ------------------------------------------------------------- inputs
Procs == {1, 2}
Keys == {"k1", "k2", "k3"}
Values == {"v1", "v2"}
\* the ttlSec argument as an argument list: <<>> when omitted, <<t>> when given
TtlArgs == {<<>>, <<0>>, <<-1>>, <<1>>}
\* the inputs of the runs with one caller and no remote store
SeqValues == {"v1"}
\* the inputs of the runs with concurrent callers and a remote store
RemoteTtlArgs == {<<>>, <<1>>}
RemoteKeyLists == {<<"k2", "k2">>, <<"k3", "k1", "k2">>}
KeyLists == {<<"k1", "k2">>, <<"k2", "k2">>, <<"k3", "k1", "k2">>}

\* session ids and connection objects handed to the ConnectionManager
SessionIds == {"s1", "s2", "s3"}
Connections == {"c1", "c2"}
NoConnection == "none"

\* bounds of the exploration
MaxCalls == 3
MaxTicks == 1
MaxSeqCalls == 4
MaxRetries == 21
MaxRetryCalls == 3
MaxRetryTicks == 1
MaxLiveCalls == 2
MaxLiveTicks == 1
MaxFlapCalls == 4
MaxTwinCalls == 4
MaxTwinTicks == 1
MaxSeqTicks == 2

\* program constants
LRU_SIZE == 2
DefaultTtlSec == 300
MsPerSec == 1000

\* JavaScript null (what get returns for a miss); not a member of Values
Null == "null"
\* `client = null`, `cleanupTimer = null`
NoClient == 0
NoTimer == 0
\* a key without an entry in `expiries` (stored timestamps are
\* Date.now() + ttlSec * 1000 with ttlSec > 0, hence never 0)
NoExpiry == 0

\* ------------------------------------------------------------- Map helpers
\* `mem` is a JavaScript Map: a sequence of entries in insertion order
MemKeys(m) == {m[i].k : i \in 1..Len(m)}

MemHas(m, key) == key \in MemKeys(m)

\* mem.get(key) ?? null
MemGet(m, key) ==
  IF MemHas(m, key)
  THEN (CHOOSE e \in {m[i] : i \in 1..Len(m)} : e.k = key).v
  ELSE Null

\* mem.delete(key)
MemDelete(m, key) == SelectSeq(m, LAMBDA e : e.k # key)

\* mem.set(key, value): an existing key keeps its position
MemSet(m, key, value) ==
  IF MemHas(m, key)
  THEN [i \in 1..Len(m) |-> IF m[i].k = key THEN [k |-> key, v |-> value] ELSE m[i]]
  ELSE Append(m, [k |-> key, v |-> value])

\* expiries.delete(key) / expiries.set(key, t)
ExpDelete(e, key) == [e EXCEPT ![key] = NoExpiry]
ExpSet(e, key, t) == [e EXCEPT ![key] = t]

\* the comparison written `exp < now`
IsExpiredStrict(e, key, t) == e[key] # NoExpiry /\ e[key] < t

\* `exp && exp <= now`
IsExpired(e, key, t) == e[key] # NoExpiry /\ e[key] <= t

\* the default parameter `ttlSec = 300`
TtlSec(ttl) == IF ttl = <<>> THEN DefaultTtlSec ELSE ttl[1]

\* `ttlSec && ttlSec > 0`
HasTtl(ttlSec) == ttlSec # 0 /\ ttlSec > 0

\* ------------------------------------------------------------- Local Store
\* promoteKey without `if (mem.size > LRU_SIZE)`
promoteKeyNoEvict(m, e, key, value) ==
  [mem |-> MemSet(IF MemHas(m, key) THEN MemDelete(m, key) ELSE m, key, value),
   expiries |-> e]

\* lines 51-62 without `expiries.delete(oldest)`
promoteKeyKeepExpiry(m, e, key, value) ==
  LET m1 == IF MemHas(m, key) THEN MemDelete(m, key) ELSE m
      m2 == MemSet(m1, key, value)
  IN IF Len(m2) > LRU_SIZE
     THEN [mem |-> MemDelete(m2, m2[1].k), expiries |-> e]
     ELSE [mem |-> m2, expiries |-> e]

\* lines 51-62
promoteKey(m, e, key, value) ==
  LET m1 == IF MemHas(m, key) THEN MemDelete(m, key) ELSE m
      m2 == MemSet(m1, key, value)
  IN IF Len(m2) > LRU_SIZE
     THEN LET oldest == m2[1].k
          IN [mem |-> MemDelete(m2, oldest), expiries |-> ExpDelete(e, oldest)]
     ELSE [mem |-> m2, expiries |-> e]

\* lines 64-72 without `expiries.delete(k)`
cleanupExpiredKeepExpiry(m, e, t) ==
  [mem |-> SelectSeq(m, LAMBDA x : ~IsExpired(e, x.k, t)), expiries |-> e]

\* lines 64-72 with the test of line 67 turned round: `if (exp > now)`
cleanupExpiredFuture(m, e, t) ==
  [mem |-> SelectSeq(m, LAMBDA x : ~(e[x.k] # NoExpiry /\ e[x.k] > t)),
   expiries |-> [k \in Keys |-> IF e[k] > t THEN NoExpiry ELSE e[k]]]

\* lines 64-72
cleanupExpired(m, e, t) ==
  [mem |-> SelectSeq(m, LAMBDA x : ~IsExpired(e, x.k, t)),
   expiries |-> [k \in Keys |-> IF IsExpired(e, k, t) THEN NoExpiry ELSE e[k]]]

\* get's local path without `if (v !== null) promoteKey(key, v)`
getLocalNoPromote(m, e, t, key) ==
  IF IsExpired(e, key, t)
  THEN [mem |-> MemDelete(m, key), expiries |-> ExpDelete(e, key), ret |-> Null]
  ELSE [mem |-> m, expiries |-> e, ret |-> MemGet(m, key)]

\* get, lines 89-98: the local path
getLocal(m, e, t, key) ==
  IF IsExpired(e, key, t)
  THEN [mem |-> MemDelete(m, key), expiries |-> ExpDelete(e, key), ret |-> Null]
  ELSE LET v == MemGet(m, key)
       IN IF v # Null
          THEN LET p == promoteKey(m, e, key, v)
               IN [mem |-> p.mem, expiries |-> p.expiries, ret |-> v]
          ELSE [mem |-> m, expiries |-> e, ret |-> v]

\* mget's local path without the expiry check of lines 121-125
RECURSIVE mgetLocalNoExpiry(_, _, _, _)
mgetLocalNoExpiry(m, e, t, keys) ==
  IF keys = <<>>
  THEN [mem |-> m, expiries |-> e, rets |-> <<>>]
  ELSE LET v == MemGet(m, Head(keys))
           p == IF v # Null THEN promoteKey(m, e, Head(keys), v)
                            ELSE [mem |-> m, expiries |-> e]
           r == mgetLocalNoExpiry(p.mem, p.expiries, t, Tail(keys))
       IN [mem |-> r.mem, expiries |-> r.expiries, rets |-> <<v>> \o r.rets]

\* mget, lines 118-129: keys.map over the local path, `now` read once
RECURSIVE mgetLocal(_, _, _, _)
mgetLocal(m, e, t, keys) ==
  IF keys = <<>>
  THEN [mem |-> m, expiries |-> e, rets |-> <<>>]
  ELSE LET g == getLocal(m, e, t, Head(keys))
           r == mgetLocal(g.mem, g.expiries, t, Tail(keys))
       IN [mem |-> r.mem, expiries |-> r.expiries, rets |-> <<g.ret>> \o r.rets]

\* set's local path without `else expiries.delete(key)`
setLocalKeepExpiry(m, e, t, key, str, ttlSec) ==
  LET p == promoteKey(m, e, key, str)
  IN [mem |-> p.mem,
      expiries |-> IF HasTtl(ttlSec)
                   THEN ExpSet(p.expiries, key, t + ttlSec * MsPerSec)
                   ELSE p.expiries]

\* set, lines 153-156: the local path
setLocal(m, e, t, key, str, ttlSec) ==
  LET p == promoteKey(m, e, key, str)
  IN [mem |-> p.mem,
      expiries |-> IF HasTtl(ttlSec)
                   THEN ExpSet(p.expiries, key, t + ttlSec * MsPerSec)
                   ELSE ExpDelete(p.expiries, key)]

\* del's local path without `expiries.delete(key)`
delLocalKeepExpiry(m, e, key) == [mem |-> MemDelete(m, key), expiries |-> e]

\* del, lines 168-169
delLocal(m, e, key) == [mem |-> MemDelete(m, key), expiries |-> ExpDelete(e, key)]

\* ------------------------------------------------------------- remote store
\* the Redis server behind client.get / mGet / set / del
remoteGet(rm, re, t, key) == IF IsExpired(re, key, t) THEN Null ELSE rm[key]

\* the server's answer to MGET: one element per key, in order
remoteMGet(rm, re, t, keys) == [i \in 1..Len(keys) |-> remoteGet(rm, re, t, keys[i])]

\* what client.mGet can resolve with: the server's array (one element per key),
\* and the two replies lines 107-108 provide for: that array with undefined in
\* place of null, and a value that is not an array
FaithfulReply == "array"
ReplyKinds == {"array", "undefined", "notarray"}
Undefined == "undefined"
NotArray == [isArray |-> FALSE, vals |-> <<>>]

clientMGet(kind, rm, re, t, keys) ==
  LET ans == remoteMGet(rm, re, t, keys)
  IN CASE kind = "array" -> [isArray |-> TRUE, vals |-> ans]
       [] kind = "undefined" ->
            [isArray |-> TRUE,
             vals |-> [i \in 1..Len(ans) |-> IF ans[i] = Null THEN Undefined ELSE ans[i]]]
       [] OTHER -> NotArray

\* lines 107-108: what mget returns for the reply of client.mGet
mgetReply(keys, reply) ==
  IF ~reply.isArray THEN [i \in 1..Len(keys) |-> Null]
  ELSE [i \in 1..Len(reply.vals) |->
          IF reply.vals[i] = Undefined THEN Null ELSE reply.vals[i]]

\* client.set without the { EX: ttlSec } option
remoteSetNoExpiry(rm, re, t, key, str, ttlSec) ==
  [rmem |-> [rm EXCEPT ![key] = str], rexp |-> [re EXCEPT ![key] = NoExpiry]]

remoteSet(rm, re, t, key, str, ttlSec) ==
  [rmem |-> [rm EXCEPT ![key] = str],
   rexp |-> [re EXCEPT ![key] = IF HasTtl(ttlSec) THEN t + ttlSec * MsPerSec ELSE NoExpiry]]

remoteDel(rm, re, key) ==
  [rmem |-> [rm EXCEPT ![key] = Null], rexp |-> [re EXCEPT ![key] = NoExpiry]]

\* ------------------------------------------------------------- state
VARIABLES
  mem,          \* const mem = new Map(): key -> string value, oldest first
  expiries,     \* const expiries = new Map(): key -> timestamp (ms)
  cleanupTimer, \* let cleanupTimer: the interval handle or null
  timers,       \* the intervals scheduled in the event loop (setInterval / clearInterval)
  client,       \* let client: the Redis client object or null
  ready,        \* let ready
  backend,      \* let backend: "redis" or "memory"
  redisWarned,  \* let _redisWarned
  redisUrl,     \* REDIS_URL is set in the environment
  conns,        \* clients whose connect() resolved and that were not disconnected
  now,          \* Date.now()
  remoteUp,     \* the Redis server answers (a call resolving while it is down rejects)
  rmem,         \* the Redis server's keys
  rexp,         \* the Redis server's expiry times (EX)
  pend,         \* per caller: the handler suspended at an await, or NoCall
  ncalls,       \* number of handler calls made so far
  last,         \* the call that returned in the latest step, or NoEvent
  wr,           \* per key: the latest completed set of it still in force
  touchOrder,   \* keys by their most recent local touch (set, or get/mget hit)
  setOrder,     \* keys by their most recent local set
  retries,      \* reconnect attempts the client's socket has made so far
  delay,        \* the delay (ms) reconnectStrategy returned for the latest attempt
  evictions,    \* keys the Local Store has dropped for capacity so far
  deleted,      \* keys whose del has returned with no set of them called or
                \* completed since
  closed,       \* close() has returned and no init() or set() was called since
  connections,     \* manager.connections: sessionId -> connection object
  connectingState, \* manager.connectingState: sessionIds currently connecting
  twin          \* two runs in step: what each run of the suspended call has returned

vars == <<mem, expiries, cleanupTimer, timers, client, ready, backend, redisWarned,
          redisUrl, conns, now, remoteUp, rmem, rexp, pend, ncalls, last, wr,
          touchOrder, setOrder, retries, delay, evictions, deleted, closed,
          connections, connectingState, twin>>

\* a completed set(key, val, ttl) at time `at`, written to the remote or the Local Store
NoWrite == [val |-> Null, at |-> 0, ttl |-> <<>>, route |-> "none"]

\* a suspended handler: its arguments, the client it called, and (get) the set of
\* its key that was in force when it was called and whether its key was then deleted
NoCall ==
  [op |-> "none", key |-> "", val |-> "", ttl |-> <<>>, keys |-> <<>>, cl |-> NoClient,
   w |-> NoWrite, d |-> FALSE]

\* two runs of one call: whether the healthy run (h) and the failing run (f) have
\* settled, the clock at the call, what each returned, and whether so far the clock
\* moved while a call was suspended (lagged) or a set was served by the Local Store
\* in both runs because the remote was not yet ready (early)
NoTwin ==
  [hdone |-> FALSE, fdone |-> FALSE, at |-> 0, ret |-> Null, rets |-> <<>>,
   hret |-> Null, hrets |-> <<>>, lagged |-> FALSE, early |-> FALSE]

NoEvent ==
  [op |-> "none", key |-> "", val |-> "", ttl |-> <<>>, keys |-> <<>>,
   ret |-> Null, rets |-> <<>>, ok |-> FALSE, route |-> "none",
   tried |-> FALSE, failed |-> FALSE, raised |-> FALSE, evicted |-> {},
   w |-> NoWrite, hret |-> Null, hrets |-> <<>>, d |-> FALSE]

\* move key to the end of a recency order
Touch(order, key) == Append(SelectSeq(order, LAMBDA x : x # key), key)

RECURSIVE TouchHits(_, _, _)
TouchHits(order, keys, rets) ==
  IF keys = <<>> THEN order
  ELSE TouchHits(IF Head(rets) # Null THEN Touch(order, Head(keys)) ELSE order,
                 Tail(keys), Tail(rets))

Idle(p) == pend[p].op = "none"
\* callers are interchangeable: a new call takes the first free caller
CanCall(p, max) == Idle(p) /\ ncalls < max /\ \A q \in Procs : q < p => ~Idle(q)

Init ==
  /\ mem = <<>>
  /\ expiries = [k \in Keys |-> NoExpiry]
  /\ cleanupTimer = NoTimer
  /\ timers = {}
  /\ client = NoClient
  /\ ready = FALSE
  /\ backend = "memory"
  /\ redisWarned = FALSE
  /\ redisUrl \in BOOLEAN
  /\ conns = {}
  /\ now = MsPerSec
  /\ remoteUp \in BOOLEAN
  /\ rmem = [k \in Keys |-> Null]
  /\ rexp = [k \in Keys |-> NoExpiry]
  /\ pend = [p \in Procs |-> NoCall]
  /\ ncalls = 0
  /\ last = NoEvent
  /\ wr = [k \in Keys |-> NoWrite]
  /\ touchOrder = <<>>
  /\ setOrder = <<>>
  /\ retries = 0
  /\ delay = 0
  /\ evictions = {}
  /\ deleted = {}
  /\ closed = FALSE
  /\ connections = [id \in SessionIds |-> NoConnection]
  /\ connectingState = {}
  /\ twin = NoTwin

\* ------------------------------------------------------------- init
\* lines 24-28 without Math.min
reconnectStrategyNoCap(r) == IF r < 5 THEN 50 ELSE 50 + r * 50

\* lines 24-28: reconnectStrategy: (retries) => ...
reconnectStrategy(r) ==
  IF r < 5 THEN 50
  ELSE IF 50 + r * 50 < 1000 THEN 50 + r * 50 ELSE 1000

\* createClient(...): a fresh client object
newClient ==
  LET used == conns \cup {client} \cup {pend[q].cl : q \in Procs}
  IN CHOOSE c \in 1..(Cardinality(used) + 1) : c \notin used

\* lines 44-47 with the guard dropped
startCleanupAlways(ct, ts) ==
  LET t == CHOOSE i \in 1..(Cardinality(ts) + 1) : i \notin ts
  IN [cleanupTimer |-> t, timers |-> ts \cup {t}]

\* lines 44-47: if (!cleanupTimer) cleanupTimer = setInterval(...)
startCleanup(ct, ts) ==
  IF ct = NoTimer
  THEN LET t == CHOOSE i \in 1..(Cardinality(ts) + 1) : i \notin ts
       IN [cleanupTimer |-> t, timers |-> ts \cup {t}]
  ELSE [cleanupTimer |-> ct, timers |-> ts]

\* lines 181-184: clearInterval(cleanupTimer); cleanupTimer = null
clearCleanup(ct, ts) == [cleanupTimer |-> NoTimer, timers |-> ts \ {ct}]

\* init() up to `await client.connect()`, or to its return when REDIS_URL is unset
InitCall(p, max) ==
  /\ CanCall(p, max)
  /\ ncalls' = ncalls + 1
  /\ IF redisUrl
     THEN /\ client' = newClient
          /\ pend' = [pend EXCEPT ![p] = [NoCall EXCEPT !.op = "init", !.cl = newClient]]
          /\ last' = NoEvent
          /\ UNCHANGED <<cleanupTimer, timers>>
     ELSE LET s == startCleanup(cleanupTimer, timers)
          IN /\ cleanupTimer' = s.cleanupTimer
             /\ timers' = s.timers
             /\ last' = [NoEvent EXCEPT !.op = "init", !.ok = TRUE]
             /\ UNCHANGED <<client, pend>>
  /\ UNCHANGED <<mem, expiries, ready, backend, redisWarned, redisUrl, conns, now,
                 remoteUp, rmem, rexp, wr, touchOrder, setOrder>>
  /\ UNCHANGED <<connections, connectingState, twin>>
  /\ closed' = FALSE
  /\ UNCHANGED deleted
  /\ UNCHANGED <<retries, delay, evictions>>

\* init() whose catch block rethrows: a failed connect leaves init before line 44
InitResumeRethrow(p) ==
  /\ pend[p].op = "init"
  /\ IF remoteUp
     THEN /\ ready' = TRUE
          /\ backend' = "redis"
          /\ conns' = conns \cup {pend[p].cl}
          /\ UNCHANGED client
     ELSE /\ client' = NoClient
          /\ ready' = FALSE
          /\ UNCHANGED <<backend, conns>>
  /\ LET s == IF remoteUp THEN startCleanup(cleanupTimer, timers)
                          ELSE [cleanupTimer |-> cleanupTimer, timers |-> timers]
     IN /\ cleanupTimer' = s.cleanupTimer
        /\ timers' = s.timers
  /\ pend' = [pend EXCEPT ![p] = NoCall]
  /\ last' = [NoEvent EXCEPT !.op = "init", !.ok = remoteUp, !.tried = TRUE,
                             !.failed = ~remoteUp, !.raised = ~remoteUp]
  /\ UNCHANGED <<mem, expiries, redisWarned, redisUrl, now, remoteUp, rmem, rexp,
                 ncalls, wr, touchOrder, setOrder>>
  /\ UNCHANGED <<connections, connectingState, twin>>
  /\ UNCHANGED <<deleted, closed>>
  /\ UNCHANGED <<retries, delay, evictions>>

\* init() from the resolution of connect() to its return
InitResume(p) ==
  /\ pend[p].op = "init"
  /\ IF remoteUp
     THEN /\ ready' = TRUE
          /\ backend' = "redis"
          /\ conns' = conns \cup {pend[p].cl}
          /\ UNCHANGED client
     ELSE /\ client' = NoClient
          /\ ready' = FALSE
          /\ UNCHANGED <<backend, conns>>
  /\ LET s == startCleanup(cleanupTimer, timers)
     IN /\ cleanupTimer' = s.cleanupTimer
        /\ timers' = s.timers
  /\ pend' = [pend EXCEPT ![p] = NoCall]
  /\ last' = [NoEvent EXCEPT !.op = "init", !.ok = TRUE, !.tried = TRUE,
                             !.failed = ~remoteUp]
  /\ UNCHANGED <<mem, expiries, redisWarned, redisUrl, now, remoteUp, rmem, rexp,
                 ncalls, wr, touchOrder, setOrder>>
  /\ UNCHANGED <<connections, connectingState, twin>>
  /\ UNCHANGED <<deleted, closed>>
  /\ UNCHANGED <<retries, delay, evictions>>

\* ------------------------------------------------------------- get
\* lines 89-98, reached with the remote skipped (tried = FALSE) or caught
getFallback(p, key, tried, w) ==
  LET g == getLocal(mem, expiries, now, key)
  IN /\ mem' = g.mem
     /\ expiries' = g.expiries
     /\ pend' = [pend EXCEPT ![p] = NoCall]
     /\ last' = [NoEvent EXCEPT !.op = "get", !.key = key, !.ret = g.ret, !.ok = TRUE,
                                !.route = "local", !.tried = tried, !.failed = tried,
                                !.w = w,
                                !.d = IF tried THEN pend[p].d ELSE key \in deleted]
     /\ touchOrder' = IF g.ret # Null THEN Touch(touchOrder, key) ELSE touchOrder
     /\ UNCHANGED <<wr, setOrder>>

GetCall(p, max, key) ==
  /\ CanCall(p, max)
  /\ ncalls' = ncalls + 1
  /\ IF ready /\ client # NoClient
     THEN /\ pend' = [pend EXCEPT ![p] = [NoCall EXCEPT !.op = "get", !.key = key,
                                                       !.cl = client, !.w = wr[key],
                                                       !.d = key \in deleted]]
          /\ last' = NoEvent
          /\ UNCHANGED <<mem, expiries, wr, touchOrder, setOrder>>
     ELSE getFallback(p, key, FALSE, wr[key])
  /\ UNCHANGED <<cleanupTimer, timers, client, ready, backend, redisWarned, redisUrl,
                 conns, now, remoteUp, rmem, rexp>>
  /\ UNCHANGED <<connections, connectingState, twin>>
  /\ UNCHANGED <<deleted, closed>>
  /\ UNCHANGED <<retries, delay, evictions>>

\* the catch block of get removed: the rejection reaches the caller
GetResumeNoCatch(p) ==
  /\ pend[p].op = "get"
  /\ pend' = [pend EXCEPT ![p] = NoCall]
  /\ last' = IF remoteUp
             THEN [NoEvent EXCEPT !.op = "get", !.key = pend[p].key, !.ok = TRUE,
                                  !.ret = remoteGet(rmem, rexp, now, pend[p].key),
                                  !.route = "remote", !.tried = TRUE]
             ELSE [NoEvent EXCEPT !.op = "get", !.key = pend[p].key, !.tried = TRUE,
                                  !.failed = TRUE, !.raised = TRUE]
  /\ UNCHANGED <<mem, expiries, cleanupTimer, timers, client, ready, backend,
                 redisWarned, redisUrl, conns, now, remoteUp, rmem, rexp, ncalls, wr,
                 touchOrder, setOrder>>
  /\ UNCHANGED <<connections, connectingState, twin>>
  /\ UNCHANGED <<deleted, closed>>
  /\ UNCHANGED <<retries, delay, evictions>>

\* get from the resolution of client.get to its return
GetResume(p) ==
  /\ pend[p].op = "get"
  /\ IF remoteUp
     THEN /\ pend' = [pend EXCEPT ![p] = NoCall]
          /\ last' = [NoEvent EXCEPT !.op = "get", !.key = pend[p].key, !.ok = TRUE,
                                     !.ret = remoteGet(rmem, rexp, now, pend[p].key),
                                     !.route = "remote", !.tried = TRUE,
                                     !.w = pend[p].w, !.d = pend[p].d]
          /\ UNCHANGED <<mem, expiries, redisWarned, wr, touchOrder, setOrder>>
     ELSE /\ redisWarned' = TRUE
          /\ getFallback(p, pend[p].key, TRUE, pend[p].w)
  /\ UNCHANGED <<cleanupTimer, timers, client, ready, backend, redisUrl, conns, now,
                 remoteUp, rmem, rexp, ncalls>>
  /\ UNCHANGED <<connections, connectingState, twin>>
  /\ UNCHANGED <<deleted, closed>>
  /\ UNCHANGED <<retries, delay, evictions>>

\* ------------------------------------------------------------- mget
\* lines 118-129, reached with the remote skipped or caught
mgetFallback(p, keys, tried) ==
  LET g == mgetLocal(mem, expiries, now, keys)
  IN /\ mem' = g.mem
     /\ expiries' = g.expiries
     /\ pend' = [pend EXCEPT ![p] = NoCall]
     /\ last' = [NoEvent EXCEPT !.op = "mget", !.keys = keys, !.rets = g.rets,
                                !.ok = TRUE, !.route = "local", !.tried = tried,
                                !.failed = tried]
     /\ touchOrder' = TouchHits(touchOrder, keys, g.rets)
     /\ UNCHANGED <<wr, setOrder>>

MgetCall(p, max, keys) ==
  /\ CanCall(p, max)
  /\ ncalls' = ncalls + 1
  /\ IF ready /\ client # NoClient
     THEN /\ pend' = [pend EXCEPT ![p] = [NoCall EXCEPT !.op = "mget", !.keys = keys,
                                                       !.cl = client]]
          /\ last' = NoEvent
          /\ UNCHANGED <<mem, expiries, wr, touchOrder, setOrder>>
     ELSE mgetFallback(p, keys, FALSE)
  /\ UNCHANGED <<cleanupTimer, timers, client, ready, backend, redisWarned, redisUrl,
                 conns, now, remoteUp, rmem, rexp>>
  /\ UNCHANGED <<connections, connectingState, twin>>
  /\ UNCHANGED <<deleted, closed>>
  /\ UNCHANGED <<retries, delay, evictions>>

\* mget that fills the nulls of a remote reply from the Local Store
MgetResumeMixed(p, kind) ==
  /\ pend[p].op = "mget"
  /\ remoteUp \/ kind = FaithfulReply
  /\ IF remoteUp
     THEN /\ pend' = [pend EXCEPT ![p] = NoCall]
          /\ last' = [NoEvent EXCEPT !.op = "mget", !.keys = pend[p].keys, !.ok = TRUE,
                                     !.rets = [i \in 1..Len(pend[p].keys) |->
                                                LET r == remoteGet(rmem, rexp, now,
                                                                   pend[p].keys[i])
                                                IN IF r # Null THEN r
                                                   ELSE MemGet(mem, pend[p].keys[i])],
                                     !.route = "remote", !.tried = TRUE]
          /\ UNCHANGED <<mem, expiries, redisWarned, wr, touchOrder, setOrder>>
     ELSE /\ redisWarned' = TRUE
          /\ mgetFallback(p, pend[p].keys, TRUE)
  /\ UNCHANGED <<cleanupTimer, timers, client, ready, backend, redisUrl, conns, now,
                 remoteUp, rmem, rexp, ncalls>>
  /\ UNCHANGED <<connections, connectingState, twin>>
  /\ UNCHANGED <<deleted, closed>>
  /\ UNCHANGED <<retries, delay, evictions>>

\* mget from the settling of client.mGet (resolved with a reply of the given kind
\* while the server is up, rejected while it is down) to its return
MgetResume(p, kind) ==
  /\ pend[p].op = "mget"
  /\ remoteUp \/ kind = FaithfulReply
  /\ IF remoteUp
     THEN /\ pend' = [pend EXCEPT ![p] = NoCall]
          /\ last' = [NoEvent EXCEPT !.op = "mget", !.keys = pend[p].keys, !.ok = TRUE,
                                     !.rets = mgetReply(pend[p].keys,
                                                clientMGet(kind, rmem, rexp, now,
                                                           pend[p].keys)),
                                     !.route = "remote", !.tried = TRUE]
          /\ UNCHANGED <<mem, expiries, redisWarned, wr, touchOrder, setOrder>>
     ELSE /\ redisWarned' = TRUE
          /\ mgetFallback(p, pend[p].keys, TRUE)
  /\ UNCHANGED <<cleanupTimer, timers, client, ready, backend, redisUrl, conns, now,
                 remoteUp, rmem, rexp, ncalls>>
  /\ UNCHANGED <<connections, connectingState, twin>>
  /\ UNCHANGED <<deleted, closed>>
  /\ UNCHANGED <<retries, delay, evictions>>

\* ------------------------------------------------------------- set
\* lines 153-156, reached with the remote skipped or caught
setFallback(p, key, str, ttl, tried) ==
  LET s == setLocal(mem, expiries, now, key, str, TtlSec(ttl))
      gone == MemKeys(mem) \ MemKeys(s.mem)
  IN /\ mem' = s.mem
     /\ expiries' = s.expiries
     /\ pend' = [pend EXCEPT ![p] = NoCall]
     /\ last' = [NoEvent EXCEPT !.op = "set", !.key = key, !.val = str, !.ttl = ttl,
                                !.ok = TRUE, !.route = "local", !.tried = tried,
                                !.failed = tried, !.evicted = gone]
     /\ touchOrder' = Touch(touchOrder, key)
     /\ setOrder' = Touch(setOrder, key)
     /\ evictions' = evictions \cup gone
     /\ wr' = [k \in Keys |->
                 IF k = key
                 THEN [val |-> str, at |-> now, ttl |-> ttl, route |-> "local"]
                 ELSE IF k \in gone THEN NoWrite ELSE wr[k]]

\* set up to `await client.set(...)`, or to its return on the local path; the
\* values passed are strings, for which line 134 gives str = value
SetCall(p, max, key, value, ttl) ==
  /\ CanCall(p, max)
  /\ ncalls' = ncalls + 1
  /\ IF ready /\ client # NoClient
     THEN /\ pend' = [pend EXCEPT ![p] = [NoCall EXCEPT !.op = "set", !.key = key,
                                                       !.val = value, !.ttl = ttl,
                                                       !.cl = client]]
          /\ last' = NoEvent
          /\ wr' = [wr EXCEPT ![key] = NoWrite]
          /\ UNCHANGED <<mem, expiries, touchOrder, setOrder, evictions>>
     ELSE setFallback(p, key, value, ttl, FALSE)
  /\ UNCHANGED <<cleanupTimer, timers, client, ready, backend, redisWarned, redisUrl,
                 conns, now, remoteUp, rmem, rexp>>
  /\ UNCHANGED <<connections, connectingState, twin>>
  /\ closed' = FALSE
  /\ deleted' = deleted \ {key}
  /\ UNCHANGED <<retries, delay>>

\* set from the resolution of client.set to its return
SetResume(p) ==
  /\ pend[p].op = "set"
  /\ IF remoteUp
     THEN LET r == remoteSet(rmem, rexp, now, pend[p].key, pend[p].val,
                             TtlSec(pend[p].ttl))
          IN /\ rmem' = r.rmem
             /\ rexp' = r.rexp
             /\ pend' = [pend EXCEPT ![p] = NoCall]
             /\ last' = [NoEvent EXCEPT !.op = "set", !.key = pend[p].key,
                                        !.val = pend[p].val, !.ttl = pend[p].ttl,
                                        !.ok = TRUE, !.route = "remote", !.tried = TRUE]
             /\ wr' = [wr EXCEPT ![pend[p].key] =
                         [val |-> pend[p].val, at |-> now, ttl |-> pend[p].ttl,
                          route |-> "remote"]]
             /\ UNCHANGED <<mem, expiries, redisWarned, touchOrder, setOrder,
                            evictions>>
     ELSE /\ redisWarned' = TRUE
          /\ setFallback(p, pend[p].key, pend[p].val, pend[p].ttl, TRUE)
          /\ UNCHANGED <<rmem, rexp>>
  /\ UNCHANGED <<cleanupTimer, timers, client, ready, backend, redisUrl, conns, now,
                 remoteUp, ncalls>>
  /\ UNCHANGED <<connections, connectingState, twin>>
  /\ deleted' = deleted \ {pend[p].key}
  /\ UNCHANGED closed
  /\ UNCHANGED <<retries, delay>>

\* ------------------------------------------------------------- del
\* lines 168-170
delFinish(p, key, tried, failed) ==
  LET d == delLocal(mem, expiries, key)
  IN /\ mem' = d.mem
     /\ expiries' = d.expiries
     /\ pend' = [pend EXCEPT ![p] = NoCall]
     /\ last' = [NoEvent EXCEPT !.op = "del", !.key = key, !.ok = TRUE,
                                !.route = "local", !.tried = tried, !.failed = failed]
     /\ wr' = [wr EXCEPT ![key] = NoWrite]
     /\ UNCHANGED <<touchOrder, setOrder>>

DelCall(p, max, key) ==
  /\ CanCall(p, max)
  /\ ncalls' = ncalls + 1
  /\ IF ready /\ client # NoClient
     THEN /\ pend' = [pend EXCEPT ![p] = [NoCall EXCEPT !.op = "del", !.key = key,
                                                       !.cl = client]]
          /\ last' = NoEvent
          /\ wr' = [wr EXCEPT ![key] = NoWrite]
          /\ UNCHANGED <<mem, expiries, touchOrder, setOrder>>
     ELSE delFinish(p, key, FALSE, FALSE)
  /\ UNCHANGED <<cleanupTimer, timers, client, ready, backend, redisWarned, redisUrl,
                 conns, now, remoteUp, rmem, rexp>>
  /\ UNCHANGED <<connections, connectingState, twin>>
  /\ deleted' = IF ready /\ client # NoClient THEN deleted ELSE deleted \cup {key}
  /\ UNCHANGED closed
  /\ UNCHANGED <<retries, delay, evictions>>

\* del from the resolution of client.del to its return
DelResume(p) ==
  /\ pend[p].op = "del"
  /\ IF remoteUp
     THEN LET r == remoteDel(rmem, rexp, pend[p].key)
          IN rmem' = r.rmem /\ rexp' = r.rexp
     ELSE UNCHANGED <<rmem, rexp>>
  /\ delFinish(p, pend[p].key, TRUE, ~remoteUp)
  /\ UNCHANGED <<cleanupTimer, timers, client, ready, backend, redisWarned, redisUrl,
                 conns, now, remoteUp, ncalls>>
  /\ UNCHANGED <<connections, connectingState, twin>>
  /\ deleted' = deleted \cup {pend[p].key}
  /\ UNCHANGED closed
  /\ UNCHANGED <<retries, delay, evictions>>

\* ------------------------------------------------------------- close
\* lines 181-187
closeFinish(p, tried) ==
  LET c == clearCleanup(cleanupTimer, timers)
  IN /\ cleanupTimer' = c.cleanupTimer
     /\ timers' = c.timers
     /\ mem' = <<>>
     /\ expiries' = [k \in Keys |-> NoExpiry]
     /\ ready' = FALSE
     /\ pend' = [pend EXCEPT ![p] = NoCall]
     /\ last' = [NoEvent EXCEPT !.op = "close", !.ok = TRUE, !.tried = tried]
     /\ wr' = [k \in Keys |-> NoWrite]
     /\ UNCHANGED <<touchOrder, setOrder>>

CloseCall(p, max) ==
  /\ CanCall(p, max)
  /\ ncalls' = ncalls + 1
  /\ IF client # NoClient /\ ready
     THEN /\ pend' = [pend EXCEPT ![p] = [NoCall EXCEPT !.op = "close", !.cl = client]]
          /\ last' = NoEvent
          /\ UNCHANGED <<mem, expiries, cleanupTimer, timers, ready, wr, touchOrder,
                         setOrder>>
     ELSE closeFinish(p, FALSE)
  /\ UNCHANGED <<client, backend, redisWarned, redisUrl, conns, now, remoteUp, rmem,
                 rexp>>
  /\ UNCHANGED <<connections, connectingState, twin>>
  /\ closed' = IF client # NoClient /\ ready THEN closed ELSE TRUE
  /\ UNCHANGED deleted
  /\ UNCHANGED <<retries, delay, evictions>>

\* close from the resolution (or rejection, ignored) of client.disconnect
CloseResume(p) ==
  /\ pend[p].op = "close"
  /\ conns' = conns \ {pend[p].cl}
  /\ closeFinish(p, TRUE)
  /\ UNCHANGED <<client, backend, redisWarned, redisUrl, now, remoteUp, rmem, rexp,
                 ncalls>>
  /\ UNCHANGED <<connections, connectingState, twin>>
  /\ closed' = TRUE
  /\ UNCHANGED deleted
  /\ UNCHANGED <<retries, delay, evictions>>

\* ------------------------------------------------------------- environment
\* the interval callback: cleanupExpired(); a firing with nothing due and nothing
\* removed leaves no event
Sweep ==
  /\ timers # {}
  /\ LET c == cleanupExpired(mem, expiries, now)
     IN /\ mem' = c.mem
        /\ expiries' = c.expiries
        /\ last' = IF /\ c.mem = mem
                      /\ c.expiries = expiries
                      /\ \A k \in Keys : ~IsExpired(expiries, k, now)
                   THEN NoEvent
                   ELSE [NoEvent EXCEPT !.op = "sweep", !.ok = TRUE,
                                        !.evicted = MemKeys(mem) \ MemKeys(c.mem)]
  /\ UNCHANGED <<cleanupTimer, timers, client, ready, backend, redisWarned, redisUrl,
                 conns, now, remoteUp, rmem, rexp, pend, ncalls, wr, touchOrder,
                 setOrder>>
  /\ UNCHANGED <<connections, connectingState, twin>>
  /\ UNCHANGED <<deleted, closed>>
  /\ UNCHANGED <<retries, delay, evictions>>

\* time passes
Tick(maxTicks) ==
  /\ now < MsPerSec + maxTicks * MsPerSec
  /\ now' = now + MsPerSec
  /\ last' = NoEvent
  /\ UNCHANGED <<mem, expiries, cleanupTimer, timers, client, ready, backend,
                 redisWarned, redisUrl, conns, remoteUp, rmem, rexp, pend, ncalls, wr,
                 touchOrder, setOrder>>
  /\ UNCHANGED <<connections, connectingState, twin>>
  /\ UNCHANGED <<deleted, closed>>
  /\ UNCHANGED <<retries, delay, evictions>>

\* the Redis server goes down or comes back
RemoteToggle ==
  /\ redisUrl
  /\ remoteUp' = ~remoteUp
  /\ last' = NoEvent
  /\ UNCHANGED <<mem, expiries, cleanupTimer, timers, client, ready, backend,
                 redisWarned, redisUrl, conns, now, rmem, rexp, pend, ncalls, wr,
                 touchOrder, setOrder>>
  /\ UNCHANGED <<connections, connectingState, twin>>
  /\ UNCHANGED <<deleted, closed>>
  /\ UNCHANGED <<retries, delay, evictions>>

\* ------------------------------------------------------------- ConnectionManager
\* the variables of the cache, which the manager does not touch
cacheVars ==
  <<mem, expiries, cleanupTimer, timers, client, ready, backend, redisWarned, redisUrl,
    conns, now, remoteUp, rmem, rexp, pend, ncalls, last, wr, touchOrder, setOrder,
    retries, delay, evictions, deleted, closed, twin>>

\* isConnected(sessionId): this.connections.has(sessionId)
isConnected(id) == connections[id] # NoConnection

\* isConnecting(sessionId): this.connectingState.has(sessionId)
isConnecting(id) == id \in connectingState

\* addConnecting(sessionId): this.connectingState.add(sessionId)
addConnecting(id) ==
  /\ connectingState' = connectingState \cup {id}
  /\ UNCHANGED connections
  /\ UNCHANGED cacheVars

\* removeConnecting(sessionId): this.connectingState.delete(sessionId)
removeConnecting(id) ==
  /\ connectingState' = connectingState \ {id}
  /\ UNCHANGED connections
  /\ UNCHANGED cacheVars

\* addConnection(sessionId, connection): set, then removeConnecting
addConnection(id, connection) ==
  /\ connections' = [connections EXCEPT ![id] = connection]
  /\ connectingState' = connectingState \ {id}
  /\ UNCHANGED cacheVars

\* removeConnection(sessionId): delete, then removeConnecting
removeConnection(id) ==
  /\ connections' = [connections EXCEPT ![id] = NoConnection]
  /\ connectingState' = connectingState \ {id}
  /\ UNCHANGED cacheVars

\* clearAll(): both collections cleared
clearAll ==
  /\ connections' = [id \in SessionIds |-> NoConnection]
  /\ connectingState' = {}
  /\ UNCHANGED cacheVars

NextManager ==
  \/ \E id \in SessionIds : addConnecting(id)
  \/ \E id \in SessionIds : removeConnecting(id)
  \/ \E id \in SessionIds, connection \in Connections : addConnection(id, connection)
  \/ \E id \in SessionIds : removeConnection(id)
  \/ clearAll

SpecManager == Init /\ [][NextManager]_vars

\* ------------------------------------------------------------- status accessors
\* isReady: () => ready
isReady == ready
\* isRedis: () => backend === "redis" (backend: () => backend is the variable itself)
isRedis == backend = "redis"

\* ------------------------------------------------------------- specifications
Next ==
  \/ \E p \in Procs : InitCall(p, MaxCalls)
  \/ \E p \in Procs : InitResume(p)
  \/ \E p \in Procs, key \in Keys : GetCall(p, MaxCalls, key)
  \/ \E p \in Procs : GetResume(p)
  \/ \E p \in Procs, keys \in RemoteKeyLists : MgetCall(p, MaxCalls, keys)
  \/ \E p \in Procs, kind \in ReplyKinds : MgetResume(p, kind)
  \/ \E p \in Procs, key \in Keys, value \in Values, ttl \in RemoteTtlArgs :
       SetCall(p, MaxCalls, key, value, ttl)
  \/ \E p \in Procs : SetResume(p)
  \/ \E p \in Procs, key \in Keys : DelCall(p, MaxCalls, key)
  \/ \E p \in Procs : DelResume(p)
  \/ \E p \in Procs : CloseCall(p, MaxCalls)
  \/ \E p \in Procs : CloseResume(p)
  \/ Sweep
  \/ Tick(MaxTicks)
  \/ RemoteToggle

Spec == Init /\ [][Next]_vars

\* one caller, no REDIS_URL: every handler runs to its return on the Local Store
InitSeq == Init /\ ~redisUrl /\ remoteUp

NextSeq ==
  \/ InitCall(1, MaxSeqCalls)
  \/ \E key \in Keys : GetCall(1, MaxSeqCalls, key)
  \/ \E keys \in KeyLists : MgetCall(1, MaxSeqCalls, keys)
  \/ \E key \in Keys, value \in SeqValues, ttl \in TtlArgs :
       SetCall(1, MaxSeqCalls, key, value, ttl)
  \/ \E key \in Keys : DelCall(1, MaxSeqCalls, key)
  \/ CloseCall(1, MaxSeqCalls)
  \/ Sweep
  \/ Tick(MaxSeqTicks)

SpecSeq == InitSeq /\ [][NextSeq]_vars

\* ------------------------------------------------------------- sweeping
\* the handlers other than close, with a sweeper interval that fires when due
NextLive ==
  \/ \E p \in Procs : InitCall(p, MaxLiveCalls)
  \/ \E p \in Procs : InitResume(p)
  \/ \E p \in Procs, key \in Keys : GetCall(p, MaxLiveCalls, key)
  \/ \E p \in Procs : GetResume(p)
  \/ \E p \in Procs, keys \in RemoteKeyLists : MgetCall(p, MaxLiveCalls, keys)
  \/ \E p \in Procs, kind \in ReplyKinds : MgetResume(p, kind)
  \/ \E p \in Procs, key \in Keys, value \in SeqValues, ttl \in RemoteTtlArgs :
       SetCall(p, MaxLiveCalls, key, value, ttl)
  \/ \E p \in Procs : SetResume(p)
  \/ \E p \in Procs, key \in Keys : DelCall(p, MaxLiveCalls, key)
  \/ \E p \in Procs : DelResume(p)
  \/ Sweep
  \/ Tick(MaxLiveTicks)
  \/ RemoteToggle

\* setInterval: a scheduled interval keeps firing
FairSweep == WF_vars(Sweep)

SpecLive == Init /\ [][NextLive]_vars /\ FairSweep

\* ------------------------------------------------------------- flapping remote
\* init, get, set and del by overlapping callers while the server goes and comes
InitFlap == Init /\ redisUrl /\ remoteUp

NextFlap ==
  \/ \E p \in Procs : InitCall(p, MaxFlapCalls)
  \/ \E p \in Procs : InitResume(p)
  \/ \E p \in Procs, key \in Keys : GetCall(p, MaxFlapCalls, key)
  \/ \E p \in Procs : GetResume(p)
  \/ \E p \in Procs, key \in Keys, value \in SeqValues, ttl \in RemoteTtlArgs :
       SetCall(p, MaxFlapCalls, key, value, ttl)
  \/ \E p \in Procs : SetResume(p)
  \/ \E p \in Procs, key \in Keys : DelCall(p, MaxFlapCalls, key)
  \/ \E p \in Procs : DelResume(p)
  \/ RemoteToggle

SpecFlap == InitFlap /\ [][NextFlap]_vars

\* ------------------------------------------------------------- reconnecting
\* the socket of the client whose connect() is pending failed to reach the server:
\* it asks reconnectStrategy for the delay before its next attempt
AdapterRetry(p) ==
  /\ pend[p].op = "init"
  /\ ~remoteUp
  /\ retries < MaxRetries
  /\ delay' = reconnectStrategy(retries)
  /\ retries' = retries + 1
  /\ last' = NoEvent
  /\ UNCHANGED <<mem, expiries, cleanupTimer, timers, client, ready, backend,
                 redisWarned, redisUrl, conns, now, remoteUp, rmem, rexp, pend, ncalls,
                 wr, touchOrder, setOrder, evictions>>
  /\ UNCHANGED <<connections, connectingState, twin>>
  /\ UNCHANGED <<deleted, closed>>

\* the Redis server becomes reachable and stays so
RemoteRecover ==
  /\ ~remoteUp
  /\ remoteUp' = TRUE
  /\ last' = NoEvent
  /\ UNCHANGED <<mem, expiries, cleanupTimer, timers, client, ready, backend,
                 redisWarned, redisUrl, conns, now, rmem, rexp, pend, ncalls, wr,
                 touchOrder, setOrder, retries, delay, evictions>>
  /\ UNCHANGED <<connections, connectingState, twin>>
  /\ UNCHANGED <<deleted, closed>>

\* the only init() call: made on a cache that was never initialised
FirstInit(p) ==
  /\ cleanupTimer = NoTimer
  /\ client = NoClient
  /\ InitCall(p, MaxRetryCalls)

\* REDIS_URL is set and the server is unreachable when the process starts
InitRetry == Init /\ redisUrl /\ ~remoteUp

NextRetry ==
  \/ \E p \in Procs : FirstInit(p)
  \/ \E p \in Procs : InitResume(p)
  \/ \E p \in Procs : AdapterRetry(p)
  \/ \E p \in Procs, key \in Keys : GetCall(p, MaxRetryCalls, key)
  \/ \E p \in Procs : GetResume(p)
  \/ \E p \in Procs, key \in Keys, value \in SeqValues, ttl \in RemoteTtlArgs :
       SetCall(p, MaxRetryCalls, key, value, ttl)
  \/ \E p \in Procs : SetResume(p)
  \/ RemoteRecover
  \/ Sweep
  \/ Tick(MaxRetryTicks)

\* the event loop runs every callback that is due, and the server does recover
FairRetry ==
  /\ \A p \in Procs : WF_vars(InitResume(p))
  /\ \A p \in Procs : WF_vars(GetResume(p))
  /\ \A p \in Procs : WF_vars(SetResume(p))
  /\ WF_vars(RemoteRecover)
  /\ WF_vars(Sweep)

SpecRetry == InitRetry /\ [][NextRetry]_vars /\ FairRetry

\* ------------------------------------------------------------- two runs in step
\* One caller issues the same get / mget / set / del calls, one after the other
\* and at the same times, to two caches: one whose remote calls all resolve (the
\* healthy run) and one whose remote calls all reject (the failing run); init may
\* be called by another caller at any time and its connect resolves in both. rmem
\* and rexp are the Redis server of the healthy run; mem and expiries are the Local
\* Store of the failing run. Until the first connect resolves both runs serve
\* every call from their Local Store, which is then the same in both; from then on
\* the healthy run never reads its Local Store again, so it is not kept. A call
\* suspends in both runs, each run settles in a step of its own, and the call has
\* returned (event with route "twin") when both have: ret, rets are the failing
\* run's values and hret, hrets the healthy run's. The records of the single-run
\* handlers (wr, touchOrder, setOrder, deleted) are not kept here.
InitTwin == Init /\ redisUrl /\ remoteUp

\* the call has returned in both runs
twinEvent(c, t) ==
  [NoEvent EXCEPT !.op = c.op, !.key = c.key, !.keys = c.keys, !.val = c.val,
                  !.ttl = c.ttl, !.ok = TRUE, !.route = "twin", !.ret = t.ret,
                  !.rets = t.rets, !.hret = t.hret, !.hrets = t.hrets]

\* one run of the suspended call settles, leaving t
twinSettle(t) ==
  LET u == [t EXCEPT !.lagged = @ \/ now # t.at]
  IN IF u.hdone /\ u.fdone
     THEN /\ pend' = [pend EXCEPT ![1] = NoCall]
          /\ last' = twinEvent(pend[1], u)
          /\ twin' = [NoTwin EXCEPT !.lagged = u.lagged, !.early = u.early]
     ELSE /\ twin' = u
          /\ last' = NoEvent
          /\ UNCHANGED pend

\* a call suspends at its await in both runs
twinSuspend(c) ==
  /\ pend' = [pend EXCEPT ![1] = c]
  /\ twin' = [twin EXCEPT !.at = now]
  /\ last' = NoEvent

\* init() in both runs up to `await client.connect()` (lines 18-33); InitResume is
\* the rest
TwinInit ==
  /\ Idle(2)
  /\ ncalls < MaxTwinCalls
  /\ redisUrl
  /\ ncalls' = ncalls + 1
  /\ client' = newClient
  /\ pend' = [pend EXCEPT ![2] = [NoCall EXCEPT !.op = "init", !.cl = newClient]]
  /\ last' = NoEvent
  /\ closed' = FALSE
  /\ UNCHANGED <<mem, expiries, cleanupTimer, timers, ready, backend,
                 redisWarned, redisUrl, conns, now, remoteUp, rmem, rexp, wr,
                 touchOrder, setOrder, retries, delay, evictions, deleted,
                 connections, connectingState, twin>>

\* get(key) in both runs up to `await client.get(key)`, or to its return from the
\* Local Store (lines 89-98) when the remote is not ready
TwinGet(key) ==
  /\ Idle(1)
  /\ ncalls < MaxTwinCalls
  /\ ncalls' = ncalls + 1
  /\ IF ready /\ client # NoClient
     THEN /\ twinSuspend([NoCall EXCEPT !.op = "get", !.key = key, !.cl = client])
          /\ UNCHANGED <<mem, expiries>>
     ELSE LET g == getLocal(mem, expiries, now, key)
          IN /\ mem' = g.mem
             /\ expiries' = g.expiries
             /\ last' = [NoEvent EXCEPT !.op = "get", !.key = key, !.ok = TRUE,
                                        !.route = "twin", !.ret = g.ret,
                                        !.hret = g.ret]
             /\ UNCHANGED <<pend, twin>>
  /\ UNCHANGED <<cleanupTimer, timers, client, ready, backend, redisWarned,
                 redisUrl, conns, now, remoteUp, rmem, rexp, wr, touchOrder,
                 setOrder, retries, delay, evictions, deleted, closed,
                 connections, connectingState>>

\* the healthy run: client.get resolves and get returns its value (line 78)
TwinGetResolve ==
  /\ pend[1].op = "get"
  /\ ~twin.hdone
  /\ twinSettle([twin EXCEPT !.hdone = TRUE,
                             !.hret = remoteGet(rmem, rexp, now, pend[1].key)])
  /\ UNCHANGED <<mem, expiries, cleanupTimer, timers, client, ready, backend,
                 redisWarned, redisUrl, conns, now, remoteUp, rmem, rexp,
                 ncalls, wr, touchOrder, setOrder, retries, delay, evictions,
                 deleted, closed, connections, connectingState>>

\* the failing run: client.get rejects and get answers from the Local Store
\* (lines 79-98)
TwinGetReject ==
  /\ pend[1].op = "get"
  /\ ~twin.fdone
  /\ LET g == getLocal(mem, expiries, now, pend[1].key)
     IN /\ mem' = g.mem
        /\ expiries' = g.expiries
        /\ twinSettle([twin EXCEPT !.fdone = TRUE, !.ret = g.ret])
  /\ redisWarned' = TRUE
  /\ UNCHANGED <<cleanupTimer, timers, client, ready, backend, redisUrl,
                 conns, now, remoteUp, rmem, rexp, ncalls, wr, touchOrder,
                 setOrder, retries, delay, evictions, deleted, closed,
                 connections, connectingState>>

\* mget(keys) in both runs up to `await client.mGet(keys)`, or to its return from
\* the Local Store (lines 118-129) when the remote is not ready
TwinMget(keys) ==
  /\ Idle(1)
  /\ ncalls < MaxTwinCalls
  /\ ncalls' = ncalls + 1
  /\ IF ready /\ client # NoClient
     THEN /\ twinSuspend([NoCall EXCEPT !.op = "mget", !.keys = keys, !.cl = client])
          /\ UNCHANGED <<mem, expiries>>
     ELSE LET g == mgetLocal(mem, expiries, now, keys)
          IN /\ mem' = g.mem
             /\ expiries' = g.expiries
             /\ last' = [NoEvent EXCEPT !.op = "mget", !.keys = keys, !.ok = TRUE,
                                        !.route = "twin", !.rets = g.rets,
                                        !.hrets = g.rets]
             /\ UNCHANGED <<pend, twin>>
  /\ UNCHANGED <<cleanupTimer, timers, client, ready, backend, redisWarned,
                 redisUrl, conns, now, remoteUp, rmem, rexp, wr, touchOrder,
                 setOrder, retries, delay, evictions, deleted, closed,
                 connections, connectingState>>

\* the healthy run: client.mGet resolves with the server's array and mget returns
\* it (lines 105-108)
TwinMgetResolve ==
  /\ pend[1].op = "mget"
  /\ ~twin.hdone
  /\ twinSettle([twin EXCEPT !.hdone = TRUE,
                             !.hrets = mgetReply(pend[1].keys,
                                         clientMGet(FaithfulReply, rmem, rexp, now,
                                                    pend[1].keys))])
  /\ UNCHANGED <<mem, expiries, cleanupTimer, timers, client, ready, backend,
                 redisWarned, redisUrl, conns, now, remoteUp, rmem, rexp,
                 ncalls, wr, touchOrder, setOrder, retries, delay, evictions,
                 deleted, closed, connections, connectingState>>

\* the failing run: client.mGet rejects and mget answers from the Local Store
\* (lines 109-129)
TwinMgetReject ==
  /\ pend[1].op = "mget"
  /\ ~twin.fdone
  /\ LET g == mgetLocal(mem, expiries, now, pend[1].keys)
     IN /\ mem' = g.mem
        /\ expiries' = g.expiries
        /\ twinSettle([twin EXCEPT !.fdone = TRUE, !.rets = g.rets])
  /\ redisWarned' = TRUE
  /\ UNCHANGED <<cleanupTimer, timers, client, ready, backend, redisUrl,
                 conns, now, remoteUp, rmem, rexp, ncalls, wr, touchOrder,
                 setOrder, retries, delay, evictions, deleted, closed,
                 connections, connectingState>>

\* lines 153-156 on the Local Store of the failing run (before the first connect:
\* of both runs)
twinSetLocal(key, value, ttl) ==
  LET s == setLocal(mem, expiries, now, key, value, TtlSec(ttl))
      gone == MemKeys(mem) \ MemKeys(s.mem)
  IN /\ mem' = s.mem
     /\ expiries' = s.expiries
     /\ evictions' = evictions \cup gone

\* set(key, value, ttl) in both runs up to `await client.set(...)`, or to its
\* return after the local write (lines 153-156) when the remote is not ready
TwinSet(key, value, ttl) ==
  /\ Idle(1)
  /\ ncalls < MaxTwinCalls
  /\ ncalls' = ncalls + 1
  /\ closed' = FALSE
  /\ IF ready /\ client # NoClient
     THEN /\ twinSuspend([NoCall EXCEPT !.op = "set", !.key = key, !.val = value,
                                        !.ttl = ttl, !.cl = client])
          /\ UNCHANGED <<mem, expiries, evictions>>
     ELSE /\ twinSetLocal(key, value, ttl)
          /\ last' = [NoEvent EXCEPT !.op = "set", !.key = key, !.val = value,
                                     !.ttl = ttl, !.ok = TRUE, !.route = "twin"]
          /\ twin' = [twin EXCEPT !.early = TRUE]
          /\ UNCHANGED pend
  /\ UNCHANGED <<cleanupTimer, timers, client, ready, backend, redisWarned,
                 redisUrl, conns, now, remoteUp, rmem, rexp, wr, touchOrder,
                 setOrder, retries, delay, deleted, connections,
                 connectingState>>

\* the healthy run: client.set resolves, the server stores the value, set returns
\* true (lines 138-143)
TwinSetResolve ==
  /\ pend[1].op = "set"
  /\ ~twin.hdone
  /\ LET r == remoteSet(rmem, rexp, now, pend[1].key, pend[1].val, TtlSec(pend[1].ttl))
     IN /\ rmem' = r.rmem
        /\ rexp' = r.rexp
  /\ twinSettle([twin EXCEPT !.hdone = TRUE])
  /\ UNCHANGED <<mem, expiries, cleanupTimer, timers, client, ready, backend,
                 redisWarned, redisUrl, conns, now, remoteUp, ncalls, wr,
                 touchOrder, setOrder, retries, delay, evictions, deleted,
                 closed, connections, connectingState>>

\* the failing run: client.set rejects, set writes the Local Store and returns
\* true (lines 144-156)
TwinSetReject ==
  /\ pend[1].op = "set"
  /\ ~twin.fdone
  /\ twinSetLocal(pend[1].key, pend[1].val, pend[1].ttl)
  /\ twinSettle([twin EXCEPT !.fdone = TRUE])
  /\ redisWarned' = TRUE
  /\ UNCHANGED <<cleanupTimer, timers, client, ready, backend, redisUrl,
                 conns, now, remoteUp, rmem, rexp, ncalls, wr, touchOrder,
                 setOrder, retries, delay, deleted, closed, connections,
                 connectingState>>

\* del(key) in both runs up to `await client.del(key)`, or to its return after
\* lines 168-169 when the remote is not ready
TwinDel(key) ==
  /\ Idle(1)
  /\ ncalls < MaxTwinCalls
  /\ ncalls' = ncalls + 1
  /\ IF ready /\ client # NoClient
     THEN /\ twinSuspend([NoCall EXCEPT !.op = "del", !.key = key, !.cl = client])
          /\ UNCHANGED <<mem, expiries>>
     ELSE LET d == delLocal(mem, expiries, key)
          IN /\ mem' = d.mem
             /\ expiries' = d.expiries
             /\ last' = [NoEvent EXCEPT !.op = "del", !.key = key, !.ok = TRUE,
                                        !.route = "twin"]
             /\ UNCHANGED <<pend, twin>>
  /\ UNCHANGED <<cleanupTimer, timers, client, ready, backend, redisWarned,
                 redisUrl, conns, now, remoteUp, rmem, rexp, wr, touchOrder,
                 setOrder, retries, delay, evictions, deleted, closed,
                 connections, connectingState>>

\* the healthy run: client.del resolves, the server drops the key, del returns
\* true (lines 162, 168-170)
TwinDelResolve ==
  /\ pend[1].op = "del"
  /\ ~twin.hdone
  /\ LET r == remoteDel(rmem, rexp, pend[1].key)
     IN /\ rmem' = r.rmem
        /\ rexp' = r.rexp
  /\ twinSettle([twin EXCEPT !.hdone = TRUE])
  /\ UNCHANGED <<mem, expiries, cleanupTimer, timers, client, ready, backend,
                 redisWarned, redisUrl, conns, now, remoteUp, ncalls, wr,
                 touchOrder, setOrder, retries, delay, evictions, deleted,
                 closed, connections, connectingState>>

\* the failing run: client.del rejects, del clears the key from the Local Store
\* and returns true (lines 164-170)
TwinDelReject ==
  /\ pend[1].op = "del"
  /\ ~twin.fdone
  /\ LET d == delLocal(mem, expiries, pend[1].key)
     IN /\ mem' = d.mem
        /\ expiries' = d.expiries
  /\ twinSettle([twin EXCEPT !.fdone = TRUE])
  /\ UNCHANGED <<cleanupTimer, timers, client, ready, backend, redisWarned,
                 redisUrl, conns, now, remoteUp, rmem, rexp, ncalls, wr,
                 touchOrder, setOrder, retries, delay, evictions, deleted,
                 closed, connections, connectingState>>

NextTwin ==
  \/ TwinInit
  \/ InitResume(2)
  \/ \E key \in Keys : TwinGet(key)
  \/ TwinGetResolve
  \/ TwinGetReject
  \/ \E keys \in RemoteKeyLists : TwinMget(keys)
  \/ TwinMgetResolve
  \/ TwinMgetReject
  \/ \E key \in Keys, value \in SeqValues, ttl \in RemoteTtlArgs :
       TwinSet(key, value, ttl)
  \/ TwinSetResolve
  \/ TwinSetReject
  \/ \E key \in Keys : TwinDel(key)
  \/ TwinDelResolve
  \/ TwinDelReject
  \/ Sweep
  \/ Tick(MaxTwinTicks)

SpecTwin == InitTwin /\ [][NextTwin]_vars

\* ------------------------------------------------------------- properties
\* the answer the Local Store owes for key at time t: its value unless expired
LocalAnswer(m, e, t, key) ==
  IF MemHas(m, key) /\ ~(e[key] # NoExpiry /\ e[key] <= t) THEN MemGet(m, key) ELSE Null

\* the recorded set of key carried a positive ttl
PositiveTtl(w) == w.ttl # <<>> /\ w.ttl[1] > 0

\* the time at which the recorded set with a positive ttl expires
ExpiresAt(w) == w.at + w.ttl[1] * MsPerSec

\* the stored key that was touched longest ago
LeastRecentlyTouched(m, order) ==
  order[CHOOSE i \in 1..Len(order) :
          /\ order[i] \in MemKeys(m)
          /\ \A j \in 1..(i - 1) : order[j] \notin MemKeys(m)]

\* position of key in a recency order (0 when it never occurred)
Pos(order, key) ==
  IF \E i \in 1..Len(order) : order[i] = key
  THEN CHOOSE i \in 1..Len(order) : order[i] = key
  ELSE 0

\* C1: in every reachable state the Local Store holds at most LRU_SIZE entries
C1_Capacity == Len(mem) <= LRU_SIZE

\* a set at full capacity has just evicted an entry
C1_Witness ==
  /\ last.op = "set"
  /\ last.evicted # {}
  /\ Len(mem) = LRU_SIZE

\* C2: a local set of a new key into a full Local Store evicts exactly one entry,
\* the stored key whose most recent touch (set, or get/mget hit) is the oldest,
\* and keeps every other entry
C2_EvictsLeastRecentlyTouched ==
  [][(/\ last'.op = "set"
      /\ last'.route = "local"
      /\ ~MemHas(mem, last'.key)
      /\ Len(mem) = LRU_SIZE)
     => (/\ last'.evicted = {LeastRecentlyTouched(mem, touchOrder)}
         /\ MemKeys(mem') = (MemKeys(mem) \ last'.evicted) \cup {last'.key})]_vars

\* an eviction spared a key that was set before the evicted key was, because a
\* later read hit had promoted it
C2_Witness ==
  /\ last.op = "set"
  /\ \E gone \in last.evicted, k \in MemKeys(mem) \ {last.key} :
       /\ Pos(setOrder, k) > 0
       /\ Pos(setOrder, k) < Pos(setOrder, gone)

\* C3 (as claimed): whenever set returns success the Local Store holds key -> value
\* with the expiry derived from ttl, whatever the remote write did
C3_SetAlwaysWritesLocal ==
  (last.op = "set" /\ last.ok)
    => (/\ MemGet(mem, last.key) = last.val
        /\ expiries[last.key] =
             IF HasTtl(TtlSec(last.ttl))
             THEN now + TtlSec(last.ttl) * MsPerSec
             ELSE NoExpiry)

\* C4 (as claimed): a get whose remote call fails returns the value of the set of
\* its key that completed on the healthy remote, when that set was in force from
\* before the get was called until it returned and has not expired
C4_RemoteSetSurvivesOutage ==
  (/\ last.op = "get"
   /\ last.failed
   /\ last.w.route = "remote"
   /\ last.w = wr[last.key]
   /\ (HasTtl(TtlSec(last.w.ttl)) => now < last.w.at + TtlSec(last.w.ttl) * MsPerSec))
    => last.ret = last.w.val

\* C5 (as claimed): a remote get/mget/set call that fails while the cache is ready
\* leaves the cache in local-fallback mode (ready cleared) in that same call
C5_FailureDemotes ==
  (last.failed /\ last.op \in {"get", "mget", "set"}) => ~ready

\* C6: while a local set(k, v, t) with t > 0 made at time T is in force, a local get
\* of k and every position of k in a local mget return v before T + t and absent
\* from T + t on, swept or not, whatever happened to the other keys
C6_TtlExpiry ==
  /\ (last.op = "get" /\ last.route = "local" /\ wr[last.key].route = "local"
        /\ PositiveTtl(wr[last.key]))
       => last.ret = IF now < ExpiresAt(wr[last.key]) THEN wr[last.key].val ELSE Null
  /\ (last.op = "mget" /\ last.route = "local")
       => \A i \in 1..Len(last.keys) :
            (wr[last.keys[i]].route = "local" /\ PositiveTtl(wr[last.keys[i]]))
              => last.rets[i] = IF now < ExpiresAt(wr[last.keys[i]])
                                THEN wr[last.keys[i]].val
                                ELSE Null

\* a get at or after T + t returned absent while another key, set with a ttl that
\* has not yet run out, is still stored
C6_Witness ==
  /\ last.op = "get"
  /\ wr[last.key].route = "local"
  /\ PositiveTtl(wr[last.key])
  /\ now >= ExpiresAt(wr[last.key])
  /\ last.ret = Null
  /\ \E k \in Keys \ {last.key} :
       /\ wr[k].route = "local"
       /\ PositiveTtl(wr[k])
       /\ now < ExpiresAt(wr[k])
       /\ MemGet(mem, k) = wr[k].val

\* C7 (as claimed): a local set whose ttl is omitted, zero or negative leaves the
\* key without an expiry
C7_NoTtlNoExpiry ==
  (last.op = "set" /\ last.route = "local" /\ (last.ttl = <<>> \/ last.ttl[1] <= 0))
    => expiries[last.key] = NoExpiry

\* C7 (amended): while a local set with a zero or negative ttl is in force its entry
\* is stored without an expiry (a previous expiry is cleared; neither lazy expiry
\* nor the sweeper removes it); a local set with the ttl omitted stores the entry
\* with the default expiry of 300 seconds
C7_NonPositiveTtlNoExpiry ==
  \A k \in Keys :
    wr[k].route = "local" =>
      IF wr[k].ttl = <<>>
      THEN now < wr[k].at + DefaultTtlSec * MsPerSec
             => (/\ MemGet(mem, k) = wr[k].val
                 /\ expiries[k] = wr[k].at + DefaultTtlSec * MsPerSec)
      ELSE wr[k].ttl[1] <= 0
             => (MemGet(mem, k) = wr[k].val /\ expiries[k] = NoExpiry)

\* an entry set with a zero or negative ttl is still stored two seconds later with
\* the sweeper scheduled
C7_Witness ==
  \E k \in Keys :
    /\ wr[k].route = "local"
    /\ wr[k].ttl # <<>>
    /\ wr[k].ttl[1] <= 0
    /\ now >= wr[k].at + 2 * MsPerSec
    /\ timers # {}
    /\ MemHas(mem, k)

\* C8: no call raises: get returns a value or null, mget a sequence of values or
\* nulls (its length is the matter of C12), set and del return true
C8_NeverRaises ==
  /\ ~last.raised
  /\ last.op # "none" => last.ok
  /\ last.op = "get" => last.ret \in Values \cup {Null}
  /\ last.op = "mget" =>
       \A i \in 1..Len(last.rets) : last.rets[i] \in Values \cup {Null}

\* a get whose remote call failed returned normally
C8_Witness ==
  /\ last.op = "get"
  /\ last.failed
  /\ last.ok

\* C9: init returns normally with the sweeper scheduled whether the connect
\* succeeded, failed or was not attempted; after a failed connect ready is false
\* and client is null, and with the remote out of use set stores and get returns
\* the value of the set in force
C9_InitSurvivesConnectFailure ==
  /\ last.op = "init" =>
       /\ last.ok /\ ~last.raised
       /\ cleanupTimer # NoTimer
       /\ cleanupTimer \in timers
  /\ (last.op = "init" /\ last.failed) => (~ready /\ client = NoClient)
  /\ (last.op = "set" /\ ~last.tried) => (last.ok /\ MemGet(mem, last.key) = last.val)
  /\ (/\ last.op = "get" /\ ~last.tried
      /\ last.w.route = "local"
      /\ (HasTtl(TtlSec(last.w.ttl))
            => now < last.w.at + TtlSec(last.w.ttl) * MsPerSec))
       => last.ret = last.w.val

\* after an init whose connect failed, a get is answered with a hit by the Local Store
C9_Witness ==
  /\ redisUrl
  /\ client = NoClient
  /\ ~ready
  /\ timers # {}
  /\ last.op = "get"
  /\ ~last.tried
  /\ last.ret # Null

\* C10: at most one sweeper interval is scheduled, and it is the one cleanupTimer holds
C10_OneSweeper ==
  /\ Cardinality(timers) <= 1
  /\ timers \subseteq {cleanupTimer}

\* an init has returned with the sweeper scheduled while another init is suspended
\* in connect
C10_Witness ==
  /\ last.op = "init"
  /\ timers # {}
  /\ \E p \in Procs : pend[p].op = "init"

\* C11: a del(key) that returns has succeeded and leaves neither a value nor an
\* expiry for key in the Local Store, whether the remote delete was skipped,
\* succeeded or failed; every other entry, its expiry and the recency order are as
\* before, so a del of an absent key changes nothing
C11_DelRemovesLocal ==
  [][last'.op = "del" =>
       /\ last'.ok
       /\ ~MemHas(mem', last'.key)
       /\ expiries'[last'.key] = NoExpiry
       /\ mem' = SelectSeq(mem, LAMBDA x : x.k # last'.key)
       /\ \A k \in Keys \ {last'.key} : expiries'[k] = expiries[k]
       /\ (~MemHas(mem, last'.key) => mem' = mem)]_vars

\* a del whose remote delete failed has returned, for a key that had been set locally
C11_Witness ==
  /\ last.op = "del"
  /\ last.tried
  /\ last.failed
  /\ Pos(setOrder, last.key) > 0

\* C12: an mget that returns gives one element per listed key, in order: the i-th
\* element is the value the answering store holds for keys[i] or null (on the local
\* route: null exactly when that key is missing or expired there); null is not one
\* of the storable strings
C12_MgetPositional ==
  [][last'.op = "mget" =>
       /\ Len(last'.rets) = Len(last'.keys)
       /\ Null \notin Values
       /\ \A i \in 1..Len(last'.keys) :
            /\ last'.rets[i] \in Values \cup {Null}
            /\ IF last'.route = "remote"
               THEN last'.rets[i] \in {Null, remoteGet(rmem, rexp, now, last'.keys[i])}
               ELSE last'.rets[i] = LocalAnswer(mem, expiries, now, last'.keys[i])]_vars

\* a local mget has returned a hit next to the null of a key that is set but expired
C12_Witness ==
  /\ last.op = "mget"
  /\ last.route = "local"
  /\ \E i \in 1..Len(last.rets) : last.rets[i] # Null
  /\ \E j \in 1..Len(last.rets) :
       /\ last.rets[j] = Null
       /\ wr[last.keys[j]].route = "local"
       /\ PositiveTtl(wr[last.keys[j]])
       /\ now >= ExpiresAt(wr[last.keys[j]])

\* C13: every get and mget that returns was answered by one store only. It was
\* answered by the remote exactly when the remote call was made and resolved: then
\* the result is the remote's answer (for mget: the client's reply as lines 107-108
\* return it) and the Local Store (entries, order, expiries) is untouched. Otherwise
\* (remote skipped or rejected) every element is the Local Store's answer.
C13_SingleBackend ==
  [][last'.op \in {"get", "mget"} =>
       /\ last'.route \in {"remote", "local"}
       /\ (last'.route = "remote") = (last'.tried /\ ~last'.failed)
       /\ IF last'.route = "remote"
          THEN /\ mem' = mem
               /\ expiries' = expiries
               /\ last'.op = "get" => last'.ret = remoteGet(rmem, rexp, now, last'.key)
               /\ last'.op = "mget" =>
                    \E kind \in ReplyKinds :
                      last'.rets = mgetReply(last'.keys,
                                             clientMGet(kind, rmem, rexp, now,
                                                        last'.keys))
          ELSE /\ last'.op = "get" =>
                    last'.ret = LocalAnswer(mem, expiries, now, last'.key)
               /\ last'.op = "mget" =>
                    \A i \in 1..Len(last'.keys) :
                      last'.rets[i] = LocalAnswer(mem, expiries, now, last'.keys[i])]_vars

\* a remote mget has answered null for a key the Local Store holds unexpired
C13_Witness ==
  /\ last.op = "mget"
  /\ last.route = "remote"
  /\ Len(last.rets) = Len(last.keys)
  /\ \E i \in 1..Len(last.keys) :
       /\ last.rets[i] = Null
       /\ LocalAnswer(mem, expiries, now, last.keys[i]) # Null

\* C14: when close() has returned and no handler is in flight, no client is left
\* connected, no sweeper interval is scheduled, the Local Store and the expiry
\* table are empty and the remote is not ready; this covers a repeated close and a
\* close of a cache that never connected or was never initialised
C14_CloseReleasesAll ==
  (last.op = "close" /\ \A p \in Procs : Idle(p)) =>
    /\ last.ok
    /\ conns = {}
    /\ timers = {}
    /\ cleanupTimer = NoTimer
    /\ mem = <<>>
    /\ expiries = [k \in Keys |-> NoExpiry]
    /\ ~ready

\* C15: in every reachable state backend() reports "redis" (isRedis() is true)
\* exactly when the remote is ready, that is isReady() is true and the handlers
\* route to the remote (ready && client); in particular isRedis() is false when
\* close() has returned and when an init() whose connect failed has returned
C15_StatusAgrees ==
  /\ isRedis = (isReady /\ client # NoClient)
  /\ last.op = "close" => ~isRedis
  /\ (last.op = "init" /\ last.failed) => ~isRedis

\* C16 as claimed: whatever calls were issued, a get or mget returns in the run
\* whose remote calls all fail what it returns in the run whose remote calls all
\* succeed
C16_FallbackTransparent ==
  last.route = "twin" => (last.ret = last.hret /\ last.rets = last.hrets)

\* C16, amended: a get or mget returns the same in both runs as long as no set of
\* the failing run has evicted an entry for capacity, no set was made before the
\* remote was ready, and the clock has not moved while a call was suspended
C16_TransparentInStep ==
  (last.route = "twin" /\ evictions = {} /\ ~twin.early /\ ~twin.lagged) =>
    (last.ret = last.hret /\ last.rets = last.hrets)

\* with no eviction, no early set and no lag so far, an mget that was suspended in
\* both runs has returned in both a hit next to the null of a key whose ttl has
\* run out
C16_Witness ==
  /\ last.op = "mget"
  /\ last.route = "twin"
  /\ evictions = {}
  /\ ~twin.early
  /\ ~twin.lagged
  /\ ready
  /\ \E i \in 1..Len(last.rets) : last.rets[i] # Null
  /\ \E j \in 1..Len(last.rets) :
       /\ last.rets[j] = Null
       /\ rmem[last.keys[j]] # Null
       /\ rexp[last.keys[j]] # NoExpiry

\* C17: once an init() whose connect failed has returned, and with the server
\* reachable from some point on, the remote eventually becomes ready, with no
\* further init()
C17_EventuallyReady == (last.op = "init" /\ last.failed) ~> ready

\* C18: the delay returned for retry count r is 50 ms for r < 5; from r = 5 on
\* each further retry adds 50 ms to the previous delay until 1000 ms is reached;
\* the delay never decreases from one retry to the next and never exceeds 1000 ms
C18_ReconnectDelay ==
  [][retries' = retries + 1 =>
       /\ retries < 5 => delay' = 50
       /\ retries > 5 => (delay' = delay + 50 \/ (delay' = 1000 /\ delay = 1000))
       /\ delay' >= delay
       /\ delay' <= 1000]_vars

\* the delay has grown to the cap and stayed there for a further retry
C18_Witness ==
  /\ retries > 20
  /\ delay = 1000

\* C19: a sweeper tick removes exactly the entries whose expiry time is at or
\* before the current time, value and expiry together, and leaves every other
\* entry, its value, its expiry and the order of the surviving keys as they were
C19_SweepFrame ==
  [][last'.op = "sweep" =>
       /\ mem' = SelectSeq(mem, LAMBDA x : ~(expiries[x.k] # NoExpiry
                                              /\ expiries[x.k] <= now))
       /\ \A k \in Keys :
            expiries'[k] = IF expiries[k] # NoExpiry /\ expiries[k] <= now
                           THEN NoExpiry ELSE expiries[k]
       /\ last'.evicted = {k \in MemKeys(mem) : expiries[k] # NoExpiry
                                                 /\ expiries[k] <= now}]_vars

\* a sweep has removed an entry and left in place one that expires later
C19_Witness ==
  /\ last.op = "sweep"
  /\ last.evicted # {}
  /\ \E k \in MemKeys(mem) : expiries[k] > now

\* C20: while a sweeper interval is scheduled (init() has run, close() has not),
\* every entry of the Local Store whose expiry time has passed is eventually
\* gone from it, whatever else happens and whether or not the remote is up
C20_ExpiredEventuallyRemoved ==
  \A k \in Keys :
    (timers # {} /\ MemHas(mem, k) /\ IsExpired(expiries, k, now))
      ~> ~(MemHas(mem, k) /\ IsExpired(expiries, k, now))

\* a sweep has removed an expired entry while the remote was ready and reachable
C20_Witness ==
  /\ last.op = "sweep"
  /\ last.evicted # {}
  /\ ready
  /\ client # NoClient
  /\ remoteUp

\* C21: in every reachable state every key that has an expiry also has a value in
\* the Local Store
C21_ExpiryHasValue ==
  \A k \in Keys : expiries[k] # NoExpiry => MemHas(mem, k)

\* a set has evicted an entry for capacity from a full store in which every entry
\* carries an expiry
C21_Witness ==
  /\ last.op = "set"
  /\ last.evicted # {}
  /\ Len(mem) = LRU_SIZE
  /\ \A k \in MemKeys(mem) : expiries[k] # NoExpiry
  /\ \A k \in last.evicted : expiries[k] = NoExpiry

\* C22: a get(k) that was called after del(k) returned, and that returns with no
\* set(k) called or completed since that del, returns null
C22_GetAfterDelAbsent ==
  (last.op = "get" /\ last.d /\ last.key \in deleted) => last.ret = Null

\* C23: while close() has returned and no init() or set() has been called since,
\* the Local Store is empty, no sweeper interval is scheduled and the remote is
\* not ready, whatever handlers were in flight when close() ran
C23_InertAfterClose ==
  closed =>
    /\ mem = <<>>
    /\ expiries = [k \in Keys |-> NoExpiry]
    /\ timers = {}
    /\ cleanupTimer = NoTimer
    /\ ~ready

\* C24: in the ConnectionManager no session id is at the same time connected and
\* connecting
C24_NotConnectedAndConnecting ==
  \A id \in SessionIds : ~(isConnected(id) /\ isConnecting(id))

====
